---- MODULE Spec2Model ----
(***************************************************************************)
(* evlist: format the upcoming events of an iCalendar file.                *)
(*                                                                         *)
(* Two specifications are given.                                           *)
(*   SpecFmt  applies the pure formatters (format_date_range,              *)
(*            text_event_formatter, text_event_formatter_w_location) to an *)
(*            event drawn from a bounded set of start/end bounds.          *)
(*   Spec     runs main(): argument handling, calendars_from_file, one     *)
(*            events_thru query per calendar, formatting, printing.        *)
(*                                                                         *)
(* The calendar objects come from the ical library: an Event has dtstart,  *)
(* dtend (possibly None), a text summary and a location (None or text);    *)
(* cal.timeline yields the occurrences ordered by span, and                *)
(* timeline.included(start, end) yields, in that order, the occurrences    *)
(* whose span lies inside the interval (start <= s and e < end), stopping  *)
(* at the first other occurrence that sorts after the interval.            *)
(*                                                                         *)
(* Values.  A bound (dtstart/dtend) is a record                            *)
(*   [kind, year, month, day, hour, minute]                                *)
(* with kind "date" (datetime.date), "datetime" (datetime.datetime) or     *)
(* "none" (Python None).  Text is a TLA+ string.                           *)
(***************************************************************************)
EXTENDS Integers, Sequences, FiniteSets, TLC

VARIABLES
    event,          \* SpecFmt: the Event handed to the formatters
    out,            \* SpecFmt: what each formatter returned (or raised)
    pc,             \* Spec: position of main()
    argv,           \* Spec: the command line (--days, --verbose)
    file,           \* Spec: what is on disk at the calendar path
    delta,          \* Spec: datetime.timedelta(days=int(args.days)), in days
    clock,          \* Spec: the wall clock datetime.now() reads, in minutes
    idx,            \* Spec: calendars of the file consumed by the for loop
    event_strings,  \* Spec: the local list of format_upcoming_events
    srcs,           \* Spec: for each element of event_strings, <<calendar, position>>
    windows,        \* Spec: per events_thru call, [start, end] of the interval queried
    sampled,        \* Spec: per events_thru call, the wall clock when it ran
    returned,       \* Spec: the value format_upcoming_events returned
    stdout          \* Spec: what main() printed

fmtvars  == <<event, out>>
mainvars == <<pc, argv, file, delta, clock, idx, event_strings, srcs, windows,
              sampled, returned, stdout>>
vars     == <<event, out, pc, argv, file, delta, clock, idx, event_strings, srcs,
              windows, sampled, returned, stdout>>

(***************************************************************************)
(* datetime values                                                         *)
(***************************************************************************)
None == [kind |-> "none", year |-> 0, month |-> 0, day |-> 0, hour |-> 0, minute |-> 0]

Date(y, m, d) ==
    [kind |-> "date", year |-> y, month |-> m, day |-> d, hour |-> 0, minute |-> 0]

DateTime(y, m, d, hh, mm) ==
    [kind |-> "datetime", year |-> y, month |-> m, day |-> d, hour |-> hh, minute |-> mm]

\* isinstance(x, datetime.datetime)
IsDateTime(x) == x.kind = "datetime"

\* truth value of "x" for x a date, a datetime or None: only None is falsy
Truthy(x) == x.kind # "none"

\* datetime.datetime.date()
date_of(x) == Date(x.year, x.month, x.day)

IsLeap(y) == y % 4 = 0 /\ (y % 100 # 0 \/ y % 400 = 0)

DaysInMonth(y, m) ==
    IF m = 2 THEN (IF IsLeap(y) THEN 29 ELSE 28)
    ELSE IF m \in {4, 6, 9, 11} THEN 30 ELSE 31

RECURSIVE DaysBeforeMonth(_, _)
DaysBeforeMonth(y, m) ==
    IF m = 1 THEN 0 ELSE DaysBeforeMonth(y, m - 1) + DaysInMonth(y, m - 1)

DaysBeforeYear(y) ==
    (y - 1) * 365 + ((y - 1) \div 4) - ((y - 1) \div 100) + ((y - 1) \div 400)

\* datetime.date.toordinal()
toordinal(d) == DaysBeforeYear(d.year) + DaysBeforeMonth(d.year, d.month) + d.day

\* (a - b) for two datetime.date values, as timedelta.days; a None operand raises
date_sub(a, b) ==
    IF a.kind = "none" \/ b.kind = "none"
    THEN [exc |-> "TypeError", days |-> 0]
    ELSE [exc |-> "", days |-> toordinal(a) - toordinal(b)]

(***************************************************************************)
(* strftime                                                                *)
(***************************************************************************)
DigitChar == <<"0", "1", "2", "3", "4", "5", "6", "7", "8", "9">>

\* a number below 100 as two decimal digits, zero padded (%H, %M, %m, %d)
Pad2(n) == DigitChar[(n \div 10) + 1] \o DigitChar[(n % 10) + 1]

Ok(s)    == [st |-> "ok", val |-> s]
Raise(e) == [st |-> "exc", val |-> e]
Unset    == [st |-> "unset", val |-> ""]

\* t.strftime("%H:%M")
format_time(t) == Pad2(t.hour) \o ":" \o Pad2(t.minute)

\* f"({format_time(start)} - {format_time(end)})"
format_timespan(start, end) ==
    "(" \o format_time(start) \o " - " \o format_time(end) \o ")"

\* d.strftime("%m/%d")
format_date(d) == Pad2(d.month) \o "/" \o Pad2(d.day)

\* the plausible slip ">= 1 day" for "> 1 day"
format_date_range_ge(start, end) ==
    LET start_date == IF IsDateTime(start) THEN date_of(start) ELSE start
        end_date   == IF IsDateTime(end) THEN date_of(end) ELSE end
    IN  IF Truthy(end_date) /\ date_sub(end_date, start_date).days >= 1
        THEN Ok(format_date(start_date) \o " - " \o format_date(end_date))
        ELSE Ok(format_date(start_date))

\* the plausible slip of dropping the "end_date and" guard
format_date_range_unguarded(start, end) ==
    LET start_date == IF IsDateTime(start) THEN date_of(start) ELSE start
        end_date   == IF IsDateTime(end) THEN date_of(end) ELSE end
        diff       == date_sub(end_date, start_date)
    IN  IF diff.exc # "" THEN Raise(diff.exc)
        ELSE IF diff.days > 1
        THEN Ok(format_date(start_date) \o " - " \o format_date(end_date))
        ELSE Ok(format_date(start_date))

\* the plausible slip of comparing the bounds themselves, not their dates:
\* a span of more than 24 hours becomes a range
format_date_range_elapsed(start, end) ==
    LET start_date == IF IsDateTime(start) THEN date_of(start) ELSE start
        end_date   == IF IsDateTime(end) THEN date_of(end) ELSE end
        minutes(x) == toordinal(x) * (24 * 60) + x.hour * 60 + x.minute
    IN  IF Truthy(end) /\ minutes(end) - minutes(start) > 24 * 60
        THEN Ok(format_date(start_date) \o " - " \o format_date(end_date))
        ELSE Ok(format_date(start_date))

format_date_range(start, end) ==
    LET start_date == IF IsDateTime(start) THEN date_of(start) ELSE start
        end_date   == IF IsDateTime(end) THEN date_of(end) ELSE end
    IN  IF Truthy(end_date)
        THEN LET diff == date_sub(end_date, start_date)
             IN  IF diff.exc # "" THEN Raise(diff.exc)
                 ELSE IF diff.days > 1
                 THEN Ok(format_date(start_date) \o " - " \o format_date(end_date))
                 ELSE Ok(format_date(start_date))
        ELSE Ok(format_date(start_date))

\* " ".join(parts)
RECURSIVE join(_, _)
join(sep, parts) ==
    IF parts = <<>> THEN ""
    ELSE IF Len(parts) = 1 THEN parts[1]
    ELSE parts[1] \o sep \o join(sep, Tail(parts))

\* the plausible slip of testing only the start bound for a time of day
text_event_formatter_start_only(ev) ==
    LET label == format_date_range(ev.dtstart, ev.dtend)
    IN  IF label.st # "ok" THEN label
        ELSE LET parts == <<label.val \o ":", ev.summary>>
             IN  IF IsDateTime(ev.dtstart)
                 THEN Ok(join(" ", Append(parts, format_timespan(ev.dtstart, ev.dtend))))
                 ELSE Ok(join(" ", parts))

text_event_formatter(ev) ==
    LET label == format_date_range(ev.dtstart, ev.dtend)
    IN  IF label.st # "ok" THEN label
        ELSE LET parts == <<label.val \o ":", ev.summary>>
             IN  IF IsDateTime(ev.dtstart) /\ IsDateTime(ev.dtend)
                 THEN Ok(join(" ", Append(parts, format_timespan(ev.dtstart, ev.dtend))))
                 ELSE Ok(join(" ", parts))

\* event.location is None or a str
NoLocation == [isNone |-> TRUE, text |-> ""]
Location(s) == [isNone |-> FALSE, text |-> s]

\* truth value of event.location: None and "" are falsy
HasLocation(loc) == ~loc.isNone /\ loc.text # ""

\* the plausible slip "is not None" for truthiness
text_event_formatter_w_location_notnone(ev) ==
    LET event_fmt == text_event_formatter(ev)
    IN  IF event_fmt.st # "ok" THEN event_fmt
        ELSE IF ~ev.location.isNone
        THEN Ok(event_fmt.val \o "\n    Location: " \o ev.location.text)
        ELSE event_fmt

text_event_formatter_w_location(ev) ==
    LET event_fmt == text_event_formatter(ev)
    IN  IF event_fmt.st # "ok" THEN event_fmt
        ELSE IF HasLocation(ev.location)
        THEN Ok(event_fmt.val \o "\n    Location: " \o ev.location.text)
        ELSE event_fmt

(***************************************************************************)
(* SpecFmt: the formatters applied to one event                            *)
(***************************************************************************)
DateInputs ==
    { Date(2023, 6, 30), Date(2023, 7, 1), Date(2023, 7, 2), Date(2023, 7, 3),
      Date(2023, 7, 4), Date(2023, 2, 28), Date(2023, 3, 1), Date(2024, 2, 28),
      Date(2024, 3, 1), Date(2023, 12, 31), Date(2024, 1, 1), Date(2024, 1, 2) }

DateTimeInputs ==
    { DateTime(2023, 7, 1, 0, 0), DateTime(2023, 7, 1, 10, 0), DateTime(2023, 7, 1, 11, 0),
      DateTime(2023, 7, 1, 23, 0), DateTime(2023, 7, 2, 23, 59), DateTime(2023, 7, 3, 1, 0),
      DateTime(2023, 7, 1, 9, 0), DateTime(2023, 7, 1, 14, 5),
      DateTime(2023, 6, 30, 22, 30), DateTime(2023, 12, 31, 23, 59),
      DateTime(2024, 1, 2, 0, 0) }

Summaries == {"Meeting", "Holiday"}
Locations == {NoLocation, Location(""), Location("Hall A")}

Event(s, e, sum, loc) == [dtstart |-> s, dtend |-> e, summary |-> sum, location |-> loc]

NoEvent == Event(None, None, "", NoLocation)
NoOut   == [range |-> Unset, plain |-> Unset, verbose |-> Unset]

IdleMain ==
    /\ pc = "idle"
    /\ argv = [given |-> FALSE, days |-> <<>>, verbose |-> FALSE]
    /\ file = [status |-> "ok", calendars |-> <<>>]
    /\ delta = 0
    /\ clock = 0
    /\ idx = 0
    /\ event_strings = <<>>
    /\ srcs = <<>>
    /\ windows = <<>>
    /\ sampled = <<>>
    /\ returned = Unset
    /\ stdout = ""

InitFmt ==
    /\ event \in { Event(s, e, sum, loc) :
                     s \in DateInputs \cup DateTimeInputs,
                     e \in DateInputs \cup DateTimeInputs \cup {None},
                     sum \in Summaries, loc \in Locations }
    /\ out = NoOut
    /\ IdleMain

Call_format_date_range ==
    /\ out.range = Unset
    /\ out' = [out EXCEPT !.range = format_date_range(event.dtstart, event.dtend)]
    /\ UNCHANGED <<event, mainvars>>

Call_text_event_formatter ==
    /\ out.plain = Unset
    /\ out' = [out EXCEPT !.plain = text_event_formatter(event)]
    /\ UNCHANGED <<event, mainvars>>

Call_text_event_formatter_w_location ==
    /\ out.verbose = Unset
    /\ out' = [out EXCEPT !.verbose = text_event_formatter_w_location(event)]
    /\ UNCHANGED <<event, mainvars>>

NextFmt ==
    \/ Call_format_date_range
    \/ Call_text_event_formatter
    \/ Call_text_event_formatter_w_location

SpecFmt == InitFmt /\ [][NextFmt]_vars

(***************************************************************************)
(* Spec: main()                                                            *)
(***************************************************************************)
\* bounds of the model
MaxCals  == 2    \* calendars in the file
MaxOccs  == 2    \* occurrences on one calendar's timeline
MaxTicks == 2    \* times the wall clock advances during the loop

\* --days default
DEFAULT_DAYS == 45

MinutesPerDay == 24 * 60

\* how far the wall clock moves in one step of the environment
TickMinutes == 45

\* A date or datetime as an instant of the local time line, in minutes (what the
\* timeline compares): a date is the midnight that starts it.
Instant(x) == toordinal(x) * MinutesPerDay + x.hour * 60 + x.minute

\* the wall clock when main() starts: 2023-07-01 10:00
Now0 == Instant(DateTime(2023, 7, 1, 10, 0))

\* The span of an occurrence on the timeline: dtstart to dtend; without dtend a
\* date-only event lasts one day and a timed event is instantaneous.
timespan(ev) ==
    [start |-> Instant(ev.dtstart),
     end   |-> IF Truthy(ev.dtend) THEN Instant(ev.dtend)
               ELSE IF IsDateTime(ev.dtstart) THEN Instant(ev.dtstart)
               ELSE Instant(ev.dtstart) + MinutesPerDay]

\* order of spans on a timeline: by start, then by end
span_gt(a, b) == a.start > b.start \/ (a.start = b.start /\ a.end > b.end)

\* the occurrences the calendars of the model are made of
Meeting  == Event(DateTime(2023, 7, 1, 10, 0), DateTime(2023, 7, 1, 11, 0),
                  "Meeting", Location("Hall A"))
FieldDay == Event(Date(2023, 8, 14), Date(2023, 8, 17), "Field Day", Location(""))
Net      == Event(DateTime(2023, 8, 14, 19, 0), None, "Net", NoLocation)

Occurrences == {Meeting, FieldDay, Net}

\* cal.timeline: the occurrences of a calendar in the order of their spans
Timelines ==
    { t \in UNION { [1..n -> Occurrences] : n \in 0..MaxOccs } :
        \A i \in 1..(Len(t) - 1) : span_gt(timespan(t[i + 1]), timespan(t[i])) }

\* what Path(filename).read_text() and the parser make of the file
Files ==
    { [status |-> "unreadable", calendars |-> <<>>],
      [status |-> "malformed", calendars |-> <<>>] }
    \cup { [status |-> "ok", calendars |-> c] :
             c \in UNION { [1..n -> Timelines] : n \in 0..MaxCals } }

\* the command lines tried: --days absent, "1", "-1", "x"; --verbose or not
Argvs ==
    { [given |-> g[1], days |-> g[2], verbose |-> v] :
        g \in { <<FALSE, <<>> >>, <<TRUE, <<"1">> >>, <<TRUE, <<"-", "1">> >>,
                <<TRUE, <<"x">> >> },
        v \in BOOLEAN }

IsDigit(c) == \E i \in 1..10 : DigitChar[i] = c
DigitValue(c) == (CHOOSE i \in 1..10 : DigitChar[i] = c) - 1

RECURSIVE digits_value(_, _)
digits_value(cs, acc) ==
    IF cs = <<>> THEN acc ELSE digits_value(Tail(cs), acc * 10 + DigitValue(cs[1]))

\* int(args.days): the default is already an int; text is an optional sign and
\* decimal digits, anything else raises ValueError
int_days(a) ==
    IF ~a.given THEN [exc |-> "", val |-> DEFAULT_DAYS]
    ELSE LET signed == a.days # <<>> /\ a.days[1] \in {"+", "-"}
             digits == IF signed THEN Tail(a.days) ELSE a.days
         IN  IF digits = <<>> \/ \E i \in 1..Len(digits) : ~IsDigit(digits[i])
             THEN [exc |-> "ValueError", val |-> 0]
             ELSE [exc |-> "",
                   val |-> IF signed /\ a.days[1] = "-"
                           THEN 0 - digits_value(digits, 0)
                           ELSE digits_value(digits, 0)]

\* the event_formatter main() passes
event_formatter(verbose, ev) ==
    IF verbose THEN text_event_formatter_w_location(ev) ELSE text_event_formatter(ev)

\* the plausible slip of sampling the day, not the instant (datetime.date.today())
start_interval_today(clk) == (clk \div MinutesPerDay) * MinutesPerDay

\* start_interval = datetime.datetime.now()
start_interval(clk) == clk

\* the plausible slip of querying [now, now) by forgetting the delta
end_interval_nodelta(start, days) == start

\* end_interval = start_interval + delta
end_interval(start, days) == start + days * MinutesPerDay

\* the test of timeline.included(): the span lies inside the interval
is_included_in(span, w) == w.start <= span.start /\ span.end < w.end

\* timeline.included(start, end) from position p on: the positions it yields.
\* It walks the timeline in order, yields what lies inside the interval and
\* stops at the first occurrence that does not and sorts after the interval.
RECURSIVE included(_, _, _)
included(timeline, w, p) ==
    IF p > Len(timeline) THEN <<>>
    ELSE LET span == timespan(timeline[p])
         IN  IF is_included_in(span, w) THEN <<p>> \o included(timeline, w, p + 1)
             ELSE IF span_gt(span, w) THEN <<>>
             ELSE included(timeline, w, p + 1)

\* the plausible slip of a reversed interval: [now - delta, now]
events_thru_past(cal, days, clk) ==
    LET s == start_interval(clk)
        w == [start |-> s - days * MinutesPerDay, end |-> s]
    IN  [window |-> w, yields |-> included(cal, w, 1)]

\* events_thru(cal, delta) run when the wall clock shows clk: the interval it
\* queried and the positions of cal.timeline it yields
events_thru(cal, days, clk) ==
    LET s == start_interval(clk)
        w == [start |-> s, end |-> end_interval(s, days)]
    IN  [window |-> w, yields |-> included(cal, w, 1)]

\* the plausible slip of inserting at the front
extend_front(list, items) == items \o list

\* event_strings.extend(items)
extend(list, items) == list \o items

NotReturned == [st |-> "unset", val |-> <<>>]

\* the plausible slip of catching the error and returning what was collected
on_error_return_partial(collected) ==
    [pc |-> "returned", returned |-> [st |-> "ok", val |-> collected]]

\* an error raised inside format_upcoming_events leaves it without a return
\* value and unwinds main() before print()
on_error(collected) == [pc |-> "failed", returned |-> NotReturned]

Init ==
    /\ event = NoEvent
    /\ out = NoOut
    /\ pc = "start"
    /\ argv \in Argvs
    /\ file \in Files
    /\ delta = 0
    /\ clock = Now0
    /\ idx = 0
    /\ event_strings = <<>>
    /\ srcs = <<>>
    /\ windows = <<>>
    /\ sampled = <<>>
    /\ returned = NotReturned
    /\ stdout = ""

\* main(): parse_args, then the arguments of format_upcoming_events
ParseArgs ==
    /\ pc = "start"
    /\ LET d == int_days(argv)
       IN  IF d.exc # ""
           THEN /\ pc' = "failed"
                /\ delta' = delta
           ELSE /\ pc' = "call"
                /\ delta' = d.val
    /\ UNCHANGED <<fmtvars, argv, file, clock, idx, event_strings, srcs, windows,
                   sampled, returned, stdout>>

\* calendars_from_file: read and parse the whole file before the first calendar
ReadFile ==
    /\ pc = "call"
    /\ IF file.status = "ok"
       THEN /\ pc' = "loop"
            /\ returned' = returned
       ELSE LET r == on_error(event_strings)
            IN  /\ pc' = r.pc
                /\ returned' = r.returned
    /\ UNCHANGED <<fmtvars, argv, file, delta, clock, idx, event_strings, srcs,
                   windows, sampled, stdout>>

\* time passes while the loop runs
Tick ==
    /\ pc = "loop"
    /\ idx < Len(file.calendars)
    /\ clock < Now0 + MaxTicks * TickMinutes
    /\ clock' = clock + TickMinutes
    /\ UNCHANGED <<fmtvars, pc, argv, file, delta, idx, event_strings, srcs, windows,
                   sampled, returned, stdout>>

\* one iteration of "for cal in calendars_from_file(filename)": events_thru,
\* the formatter on each occurrence it yields, and extend; an error raised by
\* the timeline or the formatter after k occurrences ends the call
EnumerateCalendar ==
    /\ pc = "loop"
    /\ idx < Len(file.calendars)
    /\ LET cal   == file.calendars[idx + 1]
           q     == events_thru(cal, delta, clock)
           lines == [i \in 1..Len(q.yields) |-> event_formatter(argv.verbose, cal[q.yields[i]])]
           from  == [i \in 1..Len(q.yields) |-> <<idx + 1, q.yields[i]>>]
       IN  \/ /\ \A i \in 1..Len(lines) : lines[i].st = "ok"
              /\ event_strings' = extend(event_strings, [i \in 1..Len(lines) |-> lines[i].val])
              /\ srcs' = extend(srcs, from)
              /\ idx' = idx + 1
              /\ UNCHANGED <<pc, returned>>
           \/ \E k \in 0..Len(lines) :
                /\ \A i \in 1..k : lines[i].st = "ok"
                /\ LET collected == event_strings \o [i \in 1..k |-> lines[i].val]
                       r == on_error(collected)
                   IN  /\ event_strings' = collected
                       /\ srcs' = srcs \o [i \in 1..k |-> from[i]]
                       /\ pc' = r.pc
                       /\ returned' = r.returned
                /\ idx' = idx
       /\ windows' = Append(windows, q.window)
       /\ sampled' = Append(sampled, clock)
    /\ UNCHANGED <<fmtvars, argv, file, delta, clock, stdout>>

\* return event_strings
Return ==
    /\ pc = "loop"
    /\ idx = Len(file.calendars)
    /\ returned' = [st |-> "ok", val |-> event_strings]
    /\ pc' = "returned"
    /\ UNCHANGED <<fmtvars, argv, file, delta, clock, idx, event_strings, srcs,
                   windows, sampled, stdout>>

\* print("\n".join(...))
PrintLines ==
    /\ pc = "returned"
    /\ stdout' = join("\n", returned.val) \o "\n"
    /\ pc' = "done"
    /\ UNCHANGED <<fmtvars, argv, file, delta, clock, idx, event_strings, srcs,
                   windows, sampled, returned>>

Next ==
    \/ ParseArgs
    \/ ReadFile
    \/ Tick
    \/ EnumerateCalendar
    \/ Return
    \/ PrintLines

Spec == Init /\ [][Next]_vars

(***************************************************************************)
(* Properties of the formatters (checked under SpecFmt)                    *)
(***************************************************************************)
\* The expected renderings, written out by hand for the inputs of SpecFmt.
MonthDayText ==
    { <<6, 30, "06/30">>, <<7, 1, "07/01">>, <<7, 2, "07/02">>, <<7, 3, "07/03">>,
      <<7, 4, "07/04">>, <<2, 28, "02/28">>, <<3, 1, "03/01">>, <<12, 31, "12/31">>,
      <<1, 1, "01/01">>, <<1, 2, "01/02">> }

ClockText ==
    { <<0, 0, "00:00">>, <<10, 0, "10:00">>, <<11, 0, "11:00">>, <<23, 0, "23:00">>,
      <<23, 59, "23:59">>, <<1, 0, "01:00">>, <<9, 0, "09:00">>, <<14, 5, "14:05">>,
      <<22, 30, "22:30">> }

ExpectedMMDD(x) ==
    CHOOSE s \in {t[3] : t \in {u \in MonthDayText : u[1] = x.month /\ u[2] = x.day}} : TRUE

ExpectedHHMM(x) ==
    CHOOSE s \in {t[3] : t \in {u \in ClockText : u[1] = x.hour /\ u[2] = x.minute}} : TRUE

\* the calendar day after the day of x
NextDay(x) ==
    IF x.day < DaysInMonth(x.year, x.month) THEN Date(x.year, x.month, x.day + 1)
    ELSE IF x.month < 12 THEN Date(x.year, x.month + 1, 1)
    ELSE Date(x.year + 1, 1, 1)

\* the calendar day of a is later than the calendar day of b
DayAfter(a, b) ==
    \/ a.year > b.year
    \/ a.year = b.year /\ a.month > b.month
    \/ a.year = b.year /\ a.month = b.month /\ a.day > b.day

\* the end date exceeds the start date by more than one day
MultiDay(s, e) == e # None /\ DayAfter(e, NextDay(s))

ExpectedRange(s, e) ==
    IF MultiDay(s, e) THEN ExpectedMMDD(s) \o " - " \o ExpectedMMDD(e) ELSE ExpectedMMDD(s)

ExpectedPlain(ev) ==
    ExpectedRange(ev.dtstart, ev.dtend) \o ": " \o ev.summary
      \o (IF ev.dtstart.kind = "datetime" /\ ev.dtend.kind = "datetime"
          THEN " (" \o ExpectedHHMM(ev.dtstart) \o " - " \o ExpectedHHMM(ev.dtend) \o ")"
          ELSE "")

\* C1: format_date_range returns the start date "MM/DD" alone when the end is
\* absent or at most one day after the start date, and "MM/DD - MM/DD" exactly
\* when the end date is more than one day after the start date.
C1_DateRangeLabel ==
    out.range # Unset =>
        out.range = Ok(ExpectedRange(event.dtstart, event.dtend))

\* C1 witness: a leap-year span of two days is rendered as a range
C1_Witness ==
    /\ event.dtstart = Date(2024, 2, 28)
    /\ event.dtend = Date(2024, 3, 1)
    /\ out.range = Ok("02/28 - 03/01")

\* C2: text_event_formatter returns "<label>: <summary>", followed by
\* " (HH:MM - HH:MM)" if and only if both bounds are date-times.
C2_PlainLine ==
    out.plain # Unset => out.plain = Ok(ExpectedPlain(event))

\* C2 witness: the timed meeting of the specification
C2_Witness ==
    /\ event.dtstart = DateTime(2023, 7, 1, 10, 0)
    /\ event.dtend = DateTime(2023, 7, 1, 11, 0)
    /\ event.summary = "Meeting"
    /\ out.plain = Ok("07/01: Meeting (10:00 - 11:00)")

\* C3: text_event_formatter_w_location returns the plain line followed by
\* "\n    Location: <location>" if and only if the location is non-empty, and
\* exactly the plain line when the location is absent or empty.
C3_VerboseLine ==
    out.verbose # Unset =>
        LET plain == text_event_formatter(event)
        IN  /\ plain.st = "ok"
            /\ out.verbose =
                 IF ~event.location.isNone /\ event.location.text # ""
                 THEN Ok(plain.val \o "\n    Location: " \o event.location.text)
                 ELSE plain

\* C3 witness: a located meeting gets the second line
C3_Witness ==
    /\ event.location = Location("Hall A")
    /\ out.verbose = Ok("07/01: Meeting (10:00 - 11:00)\n    Location: Hall A")

\* the bounds of ev are both dates, both date-times, or the end is absent
WellKinded(ev) == ev.dtend = None \/ ev.dtend.kind = ev.dtstart.kind

\* C7: for an event whose bounds are both dates, both date-times, or whose end
\* is absent, each of the three formatters returns a string and raises nothing.
C7_NoRaise ==
    WellKinded(event) =>
        /\ out.range.st \in {"unset", "ok"}
        /\ out.plain.st \in {"unset", "ok"}
        /\ out.verbose.st \in {"unset", "ok"}

\* C7 witness: the end precedes the start and all three formatters returned
C7_Witness ==
    /\ event.dtstart = Date(2023, 7, 1)
    /\ event.dtend = Date(2023, 6, 30)
    /\ out.range = Ok("07/01")
    /\ out.plain.st = "ok"
    /\ out.verbose.st = "ok"

\* x and y are the same calendar day (or both absent)
SameDay(x, y) ==
    IF x = None \/ y = None THEN x = y
    ELSE x.year = y.year /\ x.month = y.month /\ x.day = y.day

\* C10: format_date_range depends only on the date components of its bounds:
\* any bounds with the same calendar days give the same label.
C10_DateComponentsOnly ==
    out.range # Unset =>
        \A s \in DateInputs \cup DateTimeInputs :
            \A e \in DateInputs \cup DateTimeInputs \cup {None} :
                (SameDay(s, event.dtstart) /\ SameDay(e, event.dtend))
                    => format_date_range(s, e) = out.range

\* C10 witness: 26 hours across three calendar days is a range
C10_Witness ==
    /\ event.dtstart = DateTime(2023, 7, 1, 23, 0)
    /\ event.dtend = DateTime(2023, 7, 3, 1, 0)
    /\ out.range = Ok("07/01 - 07/03")

(***************************************************************************)
(* Properties of main() (checked under Spec)                               *)
(***************************************************************************)
\* the occurrence at position p of calendar c of the file, and its span
OccAt(c, p) == file.calendars[c][p]
SpanAt(c, p) == timespan(OccAt(c, p))

\* every <<calendar, position>> of the calendars enumerated so far
Enumerated ==
    UNION { { <<c, p>> : p \in 1..Len(file.calendars[c]) } : c \in 1..Len(sampled) }

\* the interval [now, now+delta] of calendar c: now is the wall clock when
\* events_thru ran for it
QueryWindow(c) == [start |-> sampled[c], end |-> sampled[c] + delta * MinutesPerDay]

Listed == { srcs[i] : i \in DOMAIN srcs }

\* the span meets the closed interval [now, now+delta]
Intersects(span, w) ==
    w.start <= w.end /\ span.start <= w.end /\ span.end >= w.start

\* the span lies inside the interval: now <= start and end < now+delta
Inside(span, w) == w.start <= span.start /\ span.end < w.end

\* the timeline walk of calendar c stops before position p: an earlier
\* occurrence lies outside the interval and starts after it does
CutOff(c, p) ==
    \E q \in 1..(p - 1) :
        /\ ~Inside(SpanAt(c, q), QueryWindow(c))
        /\ span_gt(SpanAt(c, q), QueryWindow(c))

\* C4 as stated: every occurrence that intersects [now, now+delta], partly or
\* wholly, has a line, and the lines are as many as those occurrences.
C4_Original ==
    pc = "done" =>
        /\ \A cp \in Enumerated :
             Intersects(SpanAt(cp[1], cp[2]), QueryWindow(cp[1])) => cp \in Listed
        /\ Len(returned.val) =
             Cardinality({ cp \in Enumerated :
                             Intersects(SpanAt(cp[1], cp[2]), QueryWindow(cp[1])) })

\* C4 amended: the lines are, one each, the occurrences that lie inside the
\* interval of their calendar's query and that the timeline walk reaches; an
\* occurrence that only partly overlaps the interval has no line.
C4_InsideLines ==
    pc \in {"returned", "done"} =>
        /\ Listed = { cp \in Enumerated :
                        /\ Inside(SpanAt(cp[1], cp[2]), QueryWindow(cp[1]))
                        /\ ~CutOff(cp[1], cp[2]) }
        /\ Len(returned.val) = Cardinality(Listed)
        /\ \A cp \in Enumerated :
             LET span == SpanAt(cp[1], cp[2])
                 w    == QueryWindow(cp[1])
             IN  (span.start < w.start \/ span.end >= w.end) => cp \notin Listed

\* C4 witness: a run that lists the meeting starting exactly now and drops the
\* field day that starts inside the interval and ends after it
C4_Witness ==
    /\ pc = "done"
    /\ file.calendars = << <<Meeting, FieldDay>> >>
    /\ delta = DEFAULT_DAYS
    /\ sampled[1] = Now0
    /\ returned.val = <<"07/01: Meeting (10:00 - 11:00)">>

\* C5: every line comes from an occurrence whose start lies in [now, now+delta]
\* of its calendar's query; an occurrence entirely before now or entirely
\* after now+delta never has a line.
C5_StartInWindow ==
    /\ \A i \in DOMAIN srcs :
         LET span == SpanAt(srcs[i][1], srcs[i][2])
             w    == QueryWindow(srcs[i][1])
         IN  /\ w.start <= span.start
             /\ span.start <= w.end
             /\ ~(span.end < w.start)
             /\ ~(span.start > w.end)
    /\ Len(event_strings) = Len(srcs)
    /\ returned.st = "ok" => Len(returned.val) = Len(srcs)

\* C5 witness: the meeting is listed from the first calendar and, once it is
\* over, not from the second
C5_Witness ==
    /\ pc = "done"
    /\ Len(file.calendars) = 2
    /\ file.calendars[2] = <<Meeting>>
    /\ SpanAt(2, 1).end < sampled[2]
    /\ srcs = << <<1, 1>> >>

\* C6: a failure is all or nothing: a failed run has returned nothing and
\* printed nothing; only a complete list is ever returned or printed.
C6_AllOrNothing ==
    /\ pc = "failed" => (returned = NotReturned /\ stdout = "")
    /\ returned.st = "ok" =>
         /\ pc \in {"returned", "done"}
         /\ file.status = "ok"
         /\ idx = Len(file.calendars)
         /\ returned.val = event_strings
    /\ stdout # "" => (pc = "done" /\ returned.st = "ok")

\* C6 witness: the second calendar fails after one of its occurrences was
\* formatted, with the first calendar's line already collected
C6_Witness ==
    /\ pc = "failed"
    /\ idx = 1
    /\ Len(event_strings) = 2
    /\ returned = NotReturned
    /\ stdout = ""

\* the positions of srcs that belong to calendar c, in order
RECURSIVE PositionsOf(_, _)
PositionsOf(c, ss) ==
    IF ss = <<>> THEN <<>>
    ELSE IF ss[1][1] = c THEN <<ss[1][2]>> \o PositionsOf(c, Tail(ss))
    ELSE PositionsOf(c, Tail(ss))

\* C8 as stated: every calendar of one call is filtered against the same
\* window, so two calendars with the same timeline list the same occurrences.
C8_Original ==
    pc = "done" =>
        \A i \in DOMAIN windows : \A j \in DOMAIN windows :
            /\ windows[i] = windows[j]
            /\ file.calendars[i] = file.calendars[j]
                 => PositionsOf(i, srcs) = PositionsOf(j, srcs)

\* C8 amended: now is sampled once per calendar, when events_thru runs for it:
\* calendar c is filtered against [now_c, now_c + delta] with now_c the wall
\* clock at that moment, and all its occurrences against that one window.
C8_WindowPerCalendar ==
    /\ Len(windows) = Len(sampled)
    /\ pc \in {"loop", "returned", "done"} => Len(windows) = idx
    /\ \A c \in DOMAIN windows :
         /\ windows[c].start = sampled[c]
         /\ windows[c].end = sampled[c] + delta * MinutesPerDay
    /\ \A i \in DOMAIN srcs :
         LET span == SpanAt(srcs[i][1], srcs[i][2])
             now  == sampled[srcs[i][1]]
         IN  now <= span.start /\ span.end < now + delta * MinutesPerDay

\* C8 witness: two calendars holding the same meeting, listed from the first
\* and not from the second, whose window was sampled later
C8_Witness ==
    /\ pc = "done"
    /\ file.calendars = << <<Meeting>>, <<Meeting>> >>
    /\ windows[1].start < windows[2].start
    /\ srcs = << <<1, 1>> >>

\* C9: the lines keep the order of the source: calendar by calendar, and
\* within a calendar exactly what the timeline query yielded, in its order.
C9_SourceOrder ==
    pc \in {"loop", "returned", "done"} =>
        /\ Len(event_strings) = Len(srcs)
        /\ \A i \in DOMAIN srcs : \A j \in DOMAIN srcs :
             i < j => \/ srcs[i][1] < srcs[j][1]
                      \/ (srcs[i][1] = srcs[j][1] /\ srcs[i][2] < srcs[j][2])
        /\ \A i \in DOMAIN srcs :
             event_strings[i] = event_formatter(argv.verbose, OccAt(srcs[i][1], srcs[i][2])).val
        /\ \A c \in 1..idx :
             PositionsOf(c, srcs) = events_thru(file.calendars[c], delta, sampled[c]).yields

\* C9 witness: two lines of the first calendar precede the line of the second
C9_Witness ==
    /\ pc = "done"
    /\ file.calendars = << <<Meeting, Net>>, <<Net>> >>
    /\ srcs = << <<1, 1>>, <<1, 2>>, <<2, 1>> >>
    /\ returned.val = <<"07/01: Meeting (10:00 - 11:00)", "08/14: Net", "08/14: Net">>

====
